---- MODULE Spec2Model ----
(***************************************************************************)
(* Farm Boy schedule synchronisation: the temporal parser                  *)
(* (src/src/utils/date_parser.py), the calendar file emitter and the       *)
(* remote calendar reconciler (src/src/services/calendar_service.py).      *)
(*                                                                         *)
(* Texts are sequences of one-character strings.  A date text and a time   *)
(* range text are represented by the outcome of the regular expression     *)
(* the parser applies to them: no match, or the captured groups.           *)
(* Instants are seconds since 1 January 00:00 of the reference year in     *)
(* the fixed zone America/Toronto; the modelled dates lie in January, so   *)
(* TIMEZONE.localize attaches one and the same offset to every instant.    *)
(***************************************************************************)
EXTENDS Integers, Sequences, FiniteSets, TLC

(***************************************************************************)
(* Bounds of the model.                                                    *)
(***************************************************************************)
MaxShifts == 2
MaxRemote == 2
MaxRuns == 2

(***************************************************************************)
(* Texts.                                                                  *)
(***************************************************************************)
UpperCase ==
  <<"A","B","C","D","E","F","G","H","I","J","K","L","M",
    "N","O","P","Q","R","S","T","U","V","W","X","Y","Z">>
LowerCase ==
  <<"a","b","c","d","e","f","g","h","i","j","k","l","m",
    "n","o","p","q","r","s","t","u","v","w","x","y","z">>

\* str.lower() on one character
LowerChar(c) ==
  IF \E i \in 1..Len(UpperCase) : UpperCase[i] = c
    THEN LowerCase[CHOOSE i \in 1..Len(UpperCase) : UpperCase[i] = c]
    ELSE c

\* str.lower()
Lower(s) == [i \in 1..Len(s) |-> LowerChar(s[i])]

\* the Python test  sub in s
Contains(s, sub) ==
  \E i \in 0..(Len(s) - Len(sub)) :
    \A j \in 1..Len(sub) : s[i + j] = sub[j]

ABSENT == <<"a","b","s","e","n","t">>
WORK == <<"W","o","r","k",":">>
FARM_BOY == <<"F","a","r","m"," ","B","o","y">>
Missing == <<"<missing>">>

(***************************************************************************)
(* parse_date_time                                                         *)
(***************************************************************************)
months ==
  [m \in {"Jan","Feb","Mar","Apr","May","Jun","Jul","Aug","Sep","Oct","Nov","Dec"} |->
     CASE m = "Jan" -> 1 [] m = "Feb" -> 2 [] m = "Mar" -> 3 [] m = "Apr" -> 4
       [] m = "May" -> 5 [] m = "Jun" -> 6 [] m = "Jul" -> 7 [] m = "Aug" -> 8
       [] m = "Sep" -> 9 [] m = "Oct" -> 10 [] m = "Nov" -> 11 [] m = "Dec" -> 12]

IsLeap(y) == (y % 4 = 0 /\ y % 100 # 0) \/ y % 400 = 0

DaysInMonth(y, m) ==
  CASE m = 2 -> IF IsLeap(y) THEN 29 ELSE 28
    [] m \in {4, 6, 9, 11} -> 30
    [] OTHER -> 31

RECURSIVE DaysBefore(_, _)
DaysBefore(y, m) == IF m = 1 THEN 0 ELSE DaysBefore(y, m - 1) + DaysInMonth(y, m - 1)

\* timedelta(days=1), timedelta(hours=1) and one minute, in seconds
OneDay == 24 * 60 * 60
OneHour == 60 * 60
OneMinute == 60 * 1

\* variant: every month taken to have 31 days
ValidDateTimeAnyMonth(y, m, d, h, mi) ==
  /\ m \in 1..12
  /\ d >= 1 /\ d <= 31
  /\ h >= 0 /\ h <= 23
  /\ mi >= 0 /\ mi <= 59

\* the arguments datetime(year, month, day, hour, minute) accepts
ValidDateTime(y, m, d, h, mi) ==
  /\ m \in 1..12
  /\ d >= 1 /\ d <= DaysInMonth(y, m)
  /\ h >= 0 /\ h <= 23
  /\ mi >= 0 /\ mi <= 59

\* datetime(year, month, day, hour, minute) as seconds since 1 January 00:00
DateTime(y, m, d, h, mi) == (((DaysBefore(y, m) + (d - 1)) * 24 + h) * 60 + mi) * 60

\* variant: 12 AM is not turned into hour 0
To24NoMidnight(hour, ampm) ==
  IF ampm = "PM" /\ hour < 12 THEN hour + 12 ELSE hour

\* the 12-hour to 24-hour conversion applied to the start and to the end hour
To24(hour, ampm) ==
  IF ampm = "PM" /\ hour < 12 THEN hour + 12
  ELSE IF ampm = "AM" /\ hour = 12 THEN 0
  ELSE hour

ParseFailure == [ok |-> FALSE, start |-> 0, end |-> 0]

\* variant: the end is never moved to the next day
parse_date_time_no_rollover(date_str, time_str, year) ==
  IF ~date_str.match THEN ParseFailure
  ELSE IF date_str.month_str \notin DOMAIN months THEN ParseFailure
  ELSE IF ~time_str.match THEN ParseFailure
  ELSE
    LET month == months[date_str.month_str]
        start_hour == To24(time_str.start_hour, time_str.start_ampm)
        end_hour == To24(time_str.end_hour, time_str.end_ampm)
    IN IF ~ValidDateTime(year, month, date_str.day, start_hour, time_str.start_min)
         THEN ParseFailure
       ELSE IF ~ValidDateTime(year, month, date_str.day, end_hour, time_str.end_min)
         THEN ParseFailure
       ELSE
         LET start_time == DateTime(year, month, date_str.day, start_hour, time_str.start_min)
             end_time == DateTime(year, month, date_str.day, end_hour, time_str.end_min)
         IN [ok |-> TRUE,
             start |-> start_time,
             end |-> end_time]

\* variant: the end is moved to the next day only when it is before the start
parse_date_time_strict_rollover(date_str, time_str, year) ==
  IF ~date_str.match THEN ParseFailure
  ELSE IF date_str.month_str \notin DOMAIN months THEN ParseFailure
  ELSE IF ~time_str.match THEN ParseFailure
  ELSE
    LET month == months[date_str.month_str]
        start_hour == To24(time_str.start_hour, time_str.start_ampm)
        end_hour == To24(time_str.end_hour, time_str.end_ampm)
    IN IF ~ValidDateTime(year, month, date_str.day, start_hour, time_str.start_min)
         THEN ParseFailure
       ELSE IF ~ValidDateTime(year, month, date_str.day, end_hour, time_str.end_min)
         THEN ParseFailure
       ELSE
         LET start_time == DateTime(year, month, date_str.day, start_hour, time_str.start_min)
             end_time == DateTime(year, month, date_str.day, end_hour, time_str.end_min)
         IN [ok |-> TRUE,
             start |-> start_time,
             end |-> IF end_time < start_time THEN end_time + OneDay ELSE end_time]

parse_date_time(date_str, time_str, year) ==
  IF ~date_str.match THEN ParseFailure
  ELSE IF date_str.month_str \notin DOMAIN months THEN ParseFailure
  ELSE IF ~time_str.match THEN ParseFailure
  ELSE
    LET month == months[date_str.month_str]
        start_hour == To24(time_str.start_hour, time_str.start_ampm)
        end_hour == To24(time_str.end_hour, time_str.end_ampm)
    IN IF ~ValidDateTime(year, month, date_str.day, start_hour, time_str.start_min)
         THEN ParseFailure
       ELSE IF ~ValidDateTime(year, month, date_str.day, end_hour, time_str.end_min)
         THEN ParseFailure
       ELSE
         LET start_time == DateTime(year, month, date_str.day, start_hour, time_str.start_min)
             end_time == DateTime(year, month, date_str.day, end_hour, time_str.end_min)
         IN [ok |-> TRUE,
             start |-> start_time,
             end |-> IF end_time <= start_time THEN end_time + OneDay ELSE end_time]

\* datetime.date() of an instant, as the day number within the year (0 = 1 January)
DateOf(t) == t \div OneDay

(***************************************************************************)
(* Shift records, as scrape_schedule builds them: every key is present and *)
(* every value is a text.  Missing stands for a key the dictionary lacks.  *)
(***************************************************************************)
\* dict.get(key, default)
Get(shift, key, default) == IF shift[key] = Missing THEN default ELSE shift[key]

DEFAULT_ROLE == <<"F","a","r","m"," ","B","o","y"," ","E","m","p","l","o","y","e","e">>
DEFAULT_DEPARTMENT == FARM_BOY

\* variant: the status compared without lower()
IsAbsentCaseSensitive(shift) == Get(shift, "status", <<>>) = ABSENT

\* shift.get('status', '').lower() == 'absent'
IsAbsent(shift) == Lower(Get(shift, "status", <<>>)) = ABSENT

\* f"Work: {role} ({department})"
Summary(shift) ==
  WORK \o <<" ">> \o Get(shift, "role", DEFAULT_ROLE) \o <<" ", "(">>
       \o Get(shift, "department", DEFAULT_DEPARTMENT) \o <<")">>

\* f"Role: {role}\nDepartment: {department}\nDuration: {duration}", the literal
\* pieces kept as single elements
Description(shift, newline) ==
  <<"Role: ">> \o Get(shift, "role", DEFAULT_ROLE) \o <<newline, "Department: ">>
     \o Get(shift, "department", DEFAULT_DEPARTMENT) \o <<newline, "Duration: ">>
     \o Get(shift, "duration", <<"N", "/", "A">>)

(***************************************************************************)
(* Input domains.                                                          *)
(***************************************************************************)
Years == {2025}

DateText(month_str, day) == [match |-> TRUE, month_str |-> month_str, day |-> day]
TimeText(sh, sm, sa, eh, em, ea) ==
  [match |-> TRUE, start_hour |-> sh, start_min |-> sm, start_ampm |-> sa,
   end_hour |-> eh, end_min |-> em, end_ampm |-> ea]
\* a date text the date pattern does not match
NoDateText == [match |-> FALSE, month_str |-> "", day |-> 0]
\* the value standing for the 'date' of a dictionary that has no 'date' key
NoDateKey == [match |-> FALSE, month_str |-> "<missing>", day |-> 0]
\* "Time not found": the text scrape_schedule stores when the card has no time
NoTimeText ==
  [match |-> FALSE, start_hour |-> 0, start_min |-> 0, start_ampm |-> "AM",
   end_hour |-> 0, end_min |-> 0, end_ampm |-> "AM"]

ShiftRecord(date, time, status, role, department) ==
  [date |-> date, time |-> time, status |-> status, role |-> role,
   department |-> department, duration |-> <<"8", "h">>]

Active == <<"A","c","t","i","v","e">>

ShiftPool ==
  { ShiftRecord(DateText("Jan", 6), TimeText(9, 0, "AM", 5, 0, "PM"), Active, <<"A">>, <<"B">>),
    ShiftRecord(DateText("Jan", 6), TimeText(9, 15, "AM", 5, 15, "PM"), Active, <<"C">>, <<"B">>),
    ShiftRecord(DateText("Jan", 7), TimeText(9, 0, "AM", 5, 0, "PM"),
                <<"A","B","S","e","n","t">>, <<"A">>, <<"B">>),
    ShiftRecord(DateText("Jan", 6), TimeText(11, 0, "PM", 1, 0, "AM"),
                <<"A","b","s","e","n","t"," ","-"," ","s","i","c","k">>, <<"A">>, <<"B">>),
    ShiftRecord(DateText("Jan", 7), NoTimeText, Active, <<"A">>, <<"B">>) }

\* shift['date'] raises KeyError for one of the records
KeyErrors(shifts) == \E i \in 1..Len(shifts) : shifts[i].date = NoDateKey

RECURSIVE SeqsUpTo(_, _)
SeqsUpTo(S, n) ==
  IF n = 0 THEN { <<>> }
  ELSE LET shorter == SeqsUpTo(S, n - 1)
       IN shorter \cup { Append(q, x) : q \in {r \in shorter : Len(r) = n - 1}, x \in S }

(***************************************************************************)
(* Remote events.  timed is TRUE when the event's start and end carry a    *)
(* 'dateTime' (an all-day event carries a 'date' instead).                 *)
(***************************************************************************)
NoDateTime == -1

Event(id, summary, location, start, end, timed) ==
  [id |-> id, summary |-> summary, location |-> location,
   start |-> start, end |-> end, timed |-> timed]

SummaryAB == WORK \o <<" ", "A", " ", "(", "B", ")">>
SummaryCB == WORK \o <<" ", "C", " ", "(", "B", ")">>
Lunch == <<"L","u","n","c","h">>
Home == <<"H","o","m","e">>

RemotePool(year) ==
  LET nine == DateTime(year, 1, 6, 9, 0)
      five == DateTime(year, 1, 6, 17, 0)
  IN { Event(1, SummaryAB, FARM_BOY, nine, five, TRUE),
       Event(2, SummaryAB, FARM_BOY, nine, five, TRUE),
       Event(3, SummaryAB, FARM_BOY, nine, five - 30 * OneMinute, TRUE),
       Event(4, SummaryCB, FARM_BOY, nine + 30 * OneMinute, five, TRUE),
       Event(5, SummaryAB, Home, nine, five, TRUE) }

FirstNewId == 9

Calendars == {"primary", "work"}

(***************************************************************************)
(* The remote store: events().list, as the calendar service answers it.    *)
(* An event is returned when it ends after timeMin and starts before       *)
(* timeMax; orderBy='startTime' sorts by start and leaves ties in any      *)
(* order.                                                                  *)
(***************************************************************************)
ListEvents(stored, timeMin, timeMax) ==
  { e \in stored : e.end > timeMin /\ e.start < timeMax }

Orderings(S) ==
  { q \in [1..Cardinality(S) -> S] :
      /\ \A i, j \in 1..Cardinality(S) : i # j => q[i] # q[j]
      /\ \A i, j \in 1..Cardinality(S) : i < j => q[i].start <= q[j].start }

\* the ordering that lists ties by id
ById(S) ==
  CHOOSE q \in Orderings(S) :
    \A i, j \in 1..Cardinality(S) : i < j /\ q[i].start = q[j].start => q[i].id < q[j].id

\* the day boundaries of find_duplicate_events: 00:00:00 and 23:59:59 of the date
StartOfDay(date) == date * OneDay
EndOfDay(date) == date * OneDay + 23 * OneHour + 59 * OneMinute + 59

\* the search range of check_event_exists
WindowMin(start_time) == start_time - OneHour
WindowMax(end_time) == end_time + OneHour

(***************************************************************************)
(* find_duplicate_events, from the events a day query returned             *)
(***************************************************************************)
\* variant: the location not looked at
IsWorkEventAnyLocation(e) == Contains(e.summary, WORK)

\* 'Work:' in event.get('summary', '') and event.get('location', '') == 'Farm Boy'
IsWorkEvent(e) == Contains(e.summary, WORK) /\ e.location = FARM_BOY

\* event['start'].get('dateTime', '')
StartDateTime(e) == IF e.timed THEN e.start ELSE NoDateTime
\* event['end'].get('dateTime')
EndDateTime(e) == IF e.timed THEN e.end ELSE NoDateTime

\* key = f"{start_time}_{summary}": the start text holds no underscore, so the
\* key determines the pair
GroupKey(e) == <<StartDateTime(e), e.summary>>

\* the keys of event_groups, in insertion order
RECURSIVE GroupKeys(_, _)
GroupKeys(evs, seen) ==
  IF evs = <<>> THEN <<>>
  ELSE IF IsWorkEvent(Head(evs)) /\ GroupKey(Head(evs)) \notin seen
    THEN <<GroupKey(Head(evs))>> \o GroupKeys(Tail(evs), seen \cup {GroupKey(Head(evs))})
    ELSE GroupKeys(Tail(evs), seen)

\* event_groups[key]
RECURSIVE Group(_, _)
Group(evs, key) ==
  IF evs = <<>> THEN <<>>
  ELSE IF IsWorkEvent(Head(evs)) /\ GroupKey(Head(evs)) = key
    THEN <<Head(evs)>> \o Group(Tail(evs), key)
    ELSE Group(Tail(evs), key)

Ids(evs) == [i \in 1..Len(evs) |-> evs[i].id]

\* variant: the first member of a group flagged too
GroupDuplicatesAll(group) == IF Len(group) > 1 THEN Ids(group) ELSE <<>>

\* for event in group[1:]: duplicates.append(event['id'])
GroupDuplicates(group) == IF Len(group) > 1 THEN Ids(Tail(group)) ELSE <<>>

RECURSIVE Duplicates(_, _)
Duplicates(evs, keys) ==
  IF keys = <<>> THEN <<>>
  ELSE GroupDuplicates(Group(evs, Head(keys))) \o Duplicates(evs, Tail(keys))

find_duplicate_events(evs) == Duplicates(evs, GroupKeys(evs, {}))

(***************************************************************************)
(* check_event_exists, from the events the window query returned           *)
(***************************************************************************)
Abs(x) == IF x < 0 THEN -x ELSE x

\* variant: a tolerance of 15 minutes
WithinToleranceNarrow(a, b) == Abs(a - b) < 15 * OneMinute

\* variant: a difference of exactly 30 minutes accepted
WithinToleranceInclusive(a, b) == Abs(a - b) <= 30 * OneMinute

\* abs(...total_seconds()) / 60 < 30, on both endpoints
WithinTolerance(a, b) == Abs(a - b) < 30 * OneMinute

SameShift(e, start_time, end_time) ==
  /\ IsWorkEvent(e)
  /\ StartDateTime(e) # NoDateTime /\ EndDateTime(e) # NoDateTime
  /\ WithinTolerance(start_time, StartDateTime(e))
  /\ WithinTolerance(end_time, EndDateTime(e))

check_event_exists(evs, start_time, end_time) ==
  \E i \in 1..Len(evs) : SameShift(evs[i], start_time, end_time)

(***************************************************************************)
(* add_events_to_google_calendar: the dates of the pre-clean pass          *)
(***************************************************************************)
RECURSIVE CollectDates(_, _, _)
CollectDates(shifts, year, dates) ==
  IF shifts = <<>> THEN dates
  ELSE LET p == parse_date_time(Head(shifts).date, Head(shifts).time, year)
       IN IF p.ok /\ ~(\E i \in 1..Len(dates) : dates[i] = DateOf(p.start))
            THEN CollectDates(Tail(shifts), year, Append(dates, DateOf(p.start)))
            ELSE CollectDates(Tail(shifts), year, dates)

\* the event body of the insert call
NewEvent(id, shift, start_dt, end_dt) ==
  Event(id, Summary(shift), FARM_BOY, start_dt, end_dt, TRUE)

(***************************************************************************)
(* create_ics: the document, one <<name, value>> pair per line             *)
(***************************************************************************)
YearLength(year) == IF IsLeap(year) THEN 366 ELSE 365

\* strftime("%Y%m%dT%H%M%S") followed by the given suffix
RECURSIVE Stamp(_, _, _)
Stamp(year, t, suffix) ==
  IF t >= YearLength(year) * OneDay
    THEN Stamp(year + 1, t - YearLength(year) * OneDay, suffix)
    ELSE LET doy == t \div OneDay
             month == CHOOSE m \in 1..12 :
                        DaysBefore(year, m) <= doy /\ doy < DaysBefore(year, m) + DaysInMonth(year, m)
         IN <<year, month, doy - DaysBefore(year, month) + 1, "T",
              (t % OneDay) \div OneHour, (t % OneHour) \div OneMinute, t % OneMinute, suffix>>

IcsHeader ==
  << <<"BEGIN", "VCALENDAR">>, <<"VERSION", "2.0">>,
     <<"PRODID", "-//MyFarmBoy Schedule//EN">>, <<"CALSCALE", "GREGORIAN">>,
     <<"METHOD", "PUBLISH">> >>

\* variant: the identifier also written into the summary line
IcsEventTagged(shift, year, p, event_uid, created) ==
  << <<"BEGIN", "VEVENT">>,
     <<"UID", event_uid>>,
     <<"DTSTAMP", Stamp(year, created, "Z")>>,
     <<"DTSTART", Stamp(year, p.start, "")>>,
     <<"DTEND", Stamp(year, p.end, "")>>,
     <<"SUMMARY", Summary(shift) \o <<event_uid>> >>,
     <<"DESCRIPTION", Description(shift, "\\n")>>,
     <<"LOCATION", FARM_BOY>>,
     <<"BEGIN", "VALARM">>,
     <<"ACTION", "DISPLAY">>,
     <<"DESCRIPTION", "Work shift reminder">>,
     <<"TRIGGER", "-PT30M">>,
     <<"END", "VALARM">>,
     <<"END", "VEVENT">> >>

IcsEvent(shift, year, p, event_uid, created) ==
  << <<"BEGIN", "VEVENT">>,
     <<"UID", event_uid>>,
     <<"DTSTAMP", Stamp(year, created, "Z")>>,
     <<"DTSTART", Stamp(year, p.start, "")>>,
     <<"DTEND", Stamp(year, p.end, "")>>,
     <<"SUMMARY", Summary(shift)>>,
     <<"DESCRIPTION", Description(shift, "\\n")>>,
     <<"LOCATION", FARM_BOY>>,
     <<"BEGIN", "VALARM">>,
     <<"ACTION", "DISPLAY">>,
     <<"DESCRIPTION", "Work shift reminder">>,
     <<"TRIGGER", "-PT30M">>,
     <<"END", "VALARM">>,
     <<"END", "VEVENT">> >>

\* variant: the loop left at the first record that does not parse
RECURSIVE IcsEventsUntilInvalid(_, _, _, _, _)
IcsEventsUntilInvalid(shifts, i, year, uids, created) ==
  IF i > Len(shifts) THEN <<>>
  ELSE IF IsAbsent(shifts[i]) THEN IcsEventsUntilInvalid(shifts, i + 1, year, uids, created)
  ELSE LET p == parse_date_time(shifts[i].date, shifts[i].time, year)
       IN IF ~p.ok THEN <<>>
          ELSE IcsEvent(shifts[i], year, p, uids[i], created[i])
                 \o IcsEventsUntilInvalid(shifts, i + 1, year, uids, created)

\* the loop of create_ics over shift_data[i..]; uids[i] and created[i] are the
\* uuid4() and the datetime.now() of the i-th iteration
RECURSIVE IcsEvents(_, _, _, _, _)
IcsEvents(shifts, i, year, uids, created) ==
  IF i > Len(shifts) THEN <<>>
  ELSE IF IsAbsent(shifts[i]) THEN IcsEvents(shifts, i + 1, year, uids, created)
  ELSE LET p == parse_date_time(shifts[i].date, shifts[i].time, year)
       IN IF ~p.ok THEN IcsEvents(shifts, i + 1, year, uids, created)
          ELSE IcsEvent(shifts[i], year, p, uids[i], created[i])
                 \o IcsEvents(shifts, i + 1, year, uids, created)

\* variant: the closing line not appended
IcsDocumentOpen(shifts, year, uids, created) ==
  IcsHeader \o IcsEvents(shifts, 1, year, uids, created)

IcsDocument(shifts, year, uids, created) ==
  IcsHeader \o IcsEvents(shifts, 1, year, uids, created) \o << <<"END", "VCALENDAR">> >>

Uids == {"uuid-a", "uuid-b"}
Clock(year) == { DateTime(year, 1, 5, 20, 30), DateTime(year, 1, 5, 21, 45) }

\* the uuid4() values of one run of create_ics and the instants (UTC) at which
\* it reads the clock: the values differ from each other, the instants do not go back
UidDraws(n) == { [i \in 1..n |-> <<u, i>>] : u \in Uids }
ClockDraws(n, year) == { [i \in 1..n |-> t + (i - 1)] : t \in Clock(year) }

(***************************************************************************)
(* State                                                                   *)
(***************************************************************************)
\* Each calendar of the remote store starts with the same events.
VARIABLES
  store,          \* calendar id -> the events the remote store holds
  shift_data,     \* the scraped shift records
  configured,     \* the calendar_id argument ("" for None)
  current_year,   \* datetime.now().year
  run,            \* number of the current run of add_events_to_google_calendar
  pc,             \* position of the program
  service,        \* outcome of get_google_calendar_service in this run
  calendar_id,    \* the calendar the run works on
  shift_dates,    \* the dates of the pre-clean pass
  date_idx,       \* position of clean_duplicate_events in shift_dates
  events,         \* the items returned by the list call of the function at work
  duplicate_ids,  \* what find_duplicate_events returned for the current date
  remove_idx,     \* position of remove_duplicate_events in duplicate_ids
  shift_idx,      \* position of the per-shift loop in shift_data
  added_count,
  skipped_count,
  result,         \* the value returned, once pc = "done"
  next_id,        \* the id the store gives to the next inserted event
  calls,          \* store calls attempted in this run, by kind
  targets,        \* the calendar ids the list, delete and insert calls of this run named
  resolved,       \* outcome of the calendarList().get call of this run
  ics,            \* the document create_ics wrote
  ics_result,     \* the value create_ics returned
  ics_prev,       \* the document an earlier run of create_ics wrote
  date_str,       \* the date text handed to parse_date_time
  time_str,       \* the time text handed to parse_date_time
  parsed,         \* what the call of parse_date_time returned (<<>> before it)
  utc_offset,     \* local time of the machine minus UTC, in seconds
  created_utc     \* the UTC instants at which create_ics read the clock

vars ==
  <<store, shift_data, configured, current_year, run, pc, service, calendar_id,
    shift_dates, date_idx, events, duplicate_ids, remove_idx, shift_idx,
    added_count, skipped_count, result, next_id, calls, targets, resolved, ics, ics_result,
                 ics_prev, date_str, time_str, parsed, utc_offset, created_utc>>

\* flagged counts the ids find_duplicate_events returned
NoCalls ==
  [resolve |-> 0, day_list |-> 0, flagged |-> 0, delete |-> 0, window_list |-> 0, insert |-> 0]

Count(kind) == [calls EXCEPT ![kind] = @ + 1]

InitRun ==
  /\ run = 1
  /\ pc = "start"
  /\ service = "none"
  /\ calendar_id = configured
  /\ shift_dates = <<>>
  /\ date_idx = 1
  /\ events = <<>>
  /\ duplicate_ids = <<>>
  /\ remove_idx = 1
  /\ shift_idx = 1
  /\ added_count = 0
  /\ skipped_count = 0
  /\ result = FALSE
  /\ next_id = FirstNewId
  /\ calls = NoCalls
  /\ targets = {}
  /\ resolved = "pending"
  /\ ics = <<>>
  /\ ics_result = FALSE
  /\ ics_prev = <<>>
  /\ parsed = <<>>
  /\ created_utc = <<>>

\* the offset of America/Toronto in January
Toronto == 0 - 5 * OneHour

Init ==
  /\ current_year \in Years
  /\ date_str = NoDateText /\ time_str = NoTimeText
  /\ shift_data \in SeqsUpTo(ShiftPool, MaxShifts)
  /\ configured \in {"", "work"}
  /\ \E S \in { T \in SUBSET RemotePool(current_year) : Cardinality(T) <= MaxRemote } :
       store = [k \in Calendars |-> S]
  /\ utc_offset = Toronto
  /\ InitRun

(***************************************************************************)
(* create_ics                                                              *)
(***************************************************************************)
\* datetime.now() at each of the UTC instants: the naive local time of the machine
datetime_now(utc) == [i \in 1..Len(utc) |-> utc[i] + utc_offset]

\* created[i] is the UTC instant at which the i-th iteration reads the clock
CreateIcs(written, uids, created) ==
  /\ pc = "start" /\ run = 1
  /\ ics' = IF written /\ ~KeyErrors(shift_data)
              THEN IcsDocument(shift_data, current_year, uids, datetime_now(created))
              ELSE <<>>
  /\ ics_result' = (written /\ ~KeyErrors(shift_data))
  /\ created_utc' = created
  /\ pc' = "ics_done"
  /\ UNCHANGED <<store, shift_data, configured, current_year, run, service, calendar_id,
                 shift_dates, date_idx, events, duplicate_ids, remove_idx, shift_idx,
                 added_count, skipped_count, result, next_id, calls, targets, resolved,
                 ics_prev, date_str, time_str, parsed, utc_offset>>

(***************************************************************************)
(* add_events_to_google_calendar                                           *)
(***************************************************************************)
\* variant: the run goes on without the  service is None  test
GetServiceUnchecked(outcome) ==
  /\ pc = "start"
  /\ service' = outcome
  /\ IF outcome # "raised"
       THEN /\ calendar_id' = IF configured = "" THEN "primary" ELSE configured
            /\ pc' = "resolve"
       ELSE /\ calendar_id' = calendar_id
            /\ pc' = "done"
  /\ result' = FALSE
  /\ added_count' = 0
  /\ skipped_count' = 0
  /\ UNCHANGED <<store, shift_data, configured, current_year, run, shift_dates, date_idx,
                 events, duplicate_ids, remove_idx, shift_idx, next_id, calls, targets,
                 resolved, ics, ics_result,
                 ics_prev, date_str, time_str, parsed, utc_offset, created_utc>>

\* variant: an exception of get_google_calendar_service leaves the function
GetServiceRaises(outcome) ==
  /\ pc = "start"
  /\ service' = outcome
  /\ IF outcome = "ok"
       THEN /\ calendar_id' = IF configured = "" THEN "primary" ELSE configured
            /\ pc' = "resolve"
       ELSE /\ calendar_id' = calendar_id
            /\ pc' = IF outcome = "raised" THEN "raised" ELSE "done"
  /\ result' = FALSE
  /\ added_count' = 0
  /\ skipped_count' = 0
  /\ UNCHANGED <<store, shift_data, configured, current_year, run, shift_dates, date_idx,
                 events, duplicate_ids, remove_idx, shift_idx, next_id, calls, targets,
                 resolved, ics, ics_result, ics_prev, date_str, time_str, parsed, utc_offset, created_utc>>

\* service = get_google_calendar_service(): a client, None, or an exception
GetService(outcome) ==
  /\ pc = "start"
  /\ service' = outcome
  /\ IF outcome = "ok"
       THEN /\ calendar_id' = IF configured = "" THEN "primary" ELSE configured
            /\ pc' = "resolve"
       ELSE /\ calendar_id' = calendar_id
            /\ pc' = "done"
  /\ result' = FALSE
  /\ added_count' = 0
  /\ skipped_count' = 0
  /\ UNCHANGED <<store, shift_data, configured, current_year, run, shift_dates, date_idx,
                 events, duplicate_ids, remove_idx, shift_idx, next_id, calls, targets,
                 resolved, ics, ics_result,
                 ics_prev, date_str, time_str, parsed, utc_offset, created_utc>>

\* position after the pre-clean pass has dealt with shift_dates[date_idx]
AfterDate == IF date_idx + 1 > Len(shift_dates) THEN "shifts" ELSE "clean"

\* variant: the configured id kept after a failed resolution
ResolveCalendarNoFallback(ok) ==
  /\ pc = "resolve"
  /\ calls' = Count("resolve")
  /\ resolved' = IF ok THEN "ok" ELSE "failed"
  /\ calendar_id' = calendar_id
  /\ shift_dates' = IF KeyErrors(shift_data) THEN <<>>
                      ELSE CollectDates(shift_data, current_year, <<>>)
  /\ date_idx' = 1
  /\ pc' = IF KeyErrors(shift_data) THEN "done"
           ELSE IF shift_dates' = <<>> THEN "shifts" ELSE "clean"
  /\ UNCHANGED <<store, shift_data, configured, current_year, run, service, events,
                 duplicate_ids, remove_idx, shift_idx, added_count, skipped_count, result,
                 next_id, targets, ics, ics_result,
                 ics_prev, date_str, time_str, parsed, utc_offset, created_utc>>

\* calendarList().get, then the collection of shift_dates; a KeyError in it
\* reaches the outer handler, which returns False
ResolveCalendar(ok) ==
  /\ pc = "resolve"
  /\ calls' = Count("resolve")
  /\ resolved' = IF ok THEN "ok" ELSE "failed"
  /\ calendar_id' = IF ok THEN calendar_id ELSE "primary"
  /\ shift_dates' = IF KeyErrors(shift_data) THEN <<>>
                      ELSE CollectDates(shift_data, current_year, <<>>)
  /\ date_idx' = 1
  /\ pc' = IF KeyErrors(shift_data) THEN "done"
           ELSE IF shift_dates' = <<>> THEN "shifts" ELSE "clean"
  /\ UNCHANGED <<store, shift_data, configured, current_year, run, service, events,
                 duplicate_ids, remove_idx, shift_idx, added_count, skipped_count, result,
                 next_id, targets, ics, ics_result,
                 ics_prev, date_str, time_str, parsed, utc_offset, created_utc>>

\* clean_duplicate_events: find_duplicate_events for shift_dates[date_idx]
FindDuplicates(ok) ==
  /\ pc = "clean"
  /\ \E listed \in Orderings(ListEvents(store[calendar_id],
                                        StartOfDay(shift_dates[date_idx]),
                                        EndOfDay(shift_dates[date_idx]))) :
       /\ events' = IF ok THEN listed ELSE <<>>
       /\ duplicate_ids' = IF ok THEN find_duplicate_events(listed) ELSE <<>>
  /\ calls' = [calls EXCEPT !["day_list"] = @ + 1,
                          !["flagged"] = @ + Len(duplicate_ids')]
  /\ targets' = targets \cup {calendar_id}
  /\ remove_idx' = 1
  /\ IF duplicate_ids' # <<>>
       THEN pc' = "remove" /\ date_idx' = date_idx
       ELSE pc' = AfterDate /\ date_idx' = date_idx + 1
  /\ UNCHANGED <<store, shift_data, configured, current_year, run, service, calendar_id,
                 shift_dates, shift_idx, added_count, skipped_count, result, next_id,
                 resolved, ics, ics_result,
                 ics_prev, date_str, time_str, parsed, utc_offset, created_utc>>

\* remove_duplicate_events: one iteration, the delete of duplicate_ids[remove_idx]
RemoveDuplicate(ok) ==
  /\ pc = "remove"
  /\ calls' = Count("delete")
  /\ targets' = targets \cup {calendar_id}
  /\ store' = IF ok
                THEN [store EXCEPT ![calendar_id] =
                        { e \in @ : e.id # duplicate_ids[remove_idx] }]
                ELSE store
  /\ IF remove_idx + 1 > Len(duplicate_ids)
       THEN /\ pc' = AfterDate /\ date_idx' = date_idx + 1 /\ remove_idx' = remove_idx
            /\ events' = <<>>
       ELSE /\ pc' = "remove" /\ date_idx' = date_idx /\ remove_idx' = remove_idx + 1
            /\ events' = events
  /\ UNCHANGED <<shift_data, configured, current_year, run, service, calendar_id,
                 shift_dates, duplicate_ids, shift_idx, added_count, skipped_count,
                 result, next_id, resolved, ics, ics_result,
                 ics_prev, date_str, time_str, parsed, utc_offset, created_utc>>

Parsed(i) == parse_date_time(shift_data[i].date, shift_data[i].time, current_year)

\* the shift the per-shift loop is at is neither absent nor unparseable
Eligible(i) == ~IsAbsent(shift_data[i]) /\ Parsed(i).ok

\* the two  continue  branches at the top of the per-shift loop
SkipShift ==
  /\ pc = "shifts" /\ shift_idx <= Len(shift_data)
  /\ ~Eligible(shift_idx)
  /\ shift_idx' = shift_idx + 1
  /\ events' = <<>>
  /\ UNCHANGED <<store, shift_data, configured, current_year, run, pc, service, calendar_id,
                 shift_dates, date_idx, duplicate_ids, remove_idx, added_count,
                 skipped_count, result, next_id, calls, targets, resolved, ics, ics_result,
                 ics_prev, date_str, time_str, parsed, utc_offset, created_utc>>

\* variant: a failed window query counted as an existing event
CheckEventExistsFailSkips(ok) ==
  /\ pc = "shifts" /\ shift_idx <= Len(shift_data)
  /\ Eligible(shift_idx)
  /\ events' = IF ok THEN ById(ListEvents(store[calendar_id],
                                         WindowMin(Parsed(shift_idx).start),
                                         WindowMax(Parsed(shift_idx).end)))
                    ELSE <<>>
  /\ calls' = Count("window_list")
  /\ targets' = targets \cup {calendar_id}
  /\ IF ~ok \/ check_event_exists(events', Parsed(shift_idx).start, Parsed(shift_idx).end)
       THEN /\ skipped_count' = skipped_count + 1
            /\ shift_idx' = shift_idx + 1
            /\ pc' = "shifts"
       ELSE /\ skipped_count' = skipped_count
            /\ shift_idx' = shift_idx
            /\ pc' = "insert"
  /\ UNCHANGED <<store, shift_data, configured, current_year, run, service, calendar_id,
                 shift_dates, date_idx, duplicate_ids, remove_idx, added_count, result,
                 next_id, resolved, ics, ics_result,
                 ics_prev, date_str, time_str, parsed, utc_offset, created_utc>>

\* check_event_exists for the shift at shift_idx.  Its outcome does not depend on
\* the order of the items, so ties are listed in one order here.
CheckEventExists(ok) ==
  /\ pc = "shifts" /\ shift_idx <= Len(shift_data)
  /\ Eligible(shift_idx)
  /\ events' = IF ok THEN ById(ListEvents(store[calendar_id],
                                         WindowMin(Parsed(shift_idx).start),
                                         WindowMax(Parsed(shift_idx).end)))
                    ELSE <<>>
  /\ calls' = Count("window_list")
  /\ targets' = targets \cup {calendar_id}
  /\ IF ok /\ check_event_exists(events', Parsed(shift_idx).start, Parsed(shift_idx).end)
       THEN /\ skipped_count' = skipped_count + 1
            /\ shift_idx' = shift_idx + 1
            /\ pc' = "shifts"
       ELSE /\ skipped_count' = skipped_count
            /\ shift_idx' = shift_idx
            /\ pc' = "insert"
  /\ UNCHANGED <<store, shift_data, configured, current_year, run, service, calendar_id,
                 shift_dates, date_idx, duplicate_ids, remove_idx, added_count, result,
                 next_id, resolved, ics, ics_result,
                 ics_prev, date_str, time_str, parsed, utc_offset, created_utc>>

\* variant: a failed insert reaches the outer handler and ends the run
InsertEventAbort(ok) ==
  /\ pc = "insert"
  /\ calls' = Count("insert")
  /\ targets' = targets \cup {calendar_id}
  /\ IF ok
       THEN /\ store' = [store EXCEPT ![calendar_id] =
                           @ \cup { NewEvent(next_id, shift_data[shift_idx],
                                             Parsed(shift_idx).start, Parsed(shift_idx).end) }]
            /\ next_id' = next_id + 1
            /\ added_count' = added_count + 1
            /\ shift_idx' = shift_idx + 1
            /\ pc' = "shifts"
       ELSE /\ UNCHANGED <<store, next_id, added_count, shift_idx>>
            /\ pc' = "done"
  /\ events' = <<>>
  /\ UNCHANGED <<shift_data, configured, current_year, run, service, calendar_id,
                 shift_dates, date_idx, duplicate_ids, remove_idx, skipped_count,
                 result, resolved, ics, ics_result,
                 ics_prev, date_str, time_str, parsed, utc_offset, created_utc>>

\* variant: the work events that start within the tolerance replaced by the new one
InsertEventReplace(ok) ==
  /\ pc = "insert"
  /\ calls' = Count("insert")
  /\ targets' = targets \cup {calendar_id}
  /\ IF ok
       THEN /\ store' = [store EXCEPT ![calendar_id] =
                           { e \in @ : ~(/\ IsWorkEvent(e)
                                         /\ WithinTolerance(Parsed(shift_idx).start, e.start)) }
                           \cup { NewEvent(next_id, shift_data[shift_idx],
                                           Parsed(shift_idx).start, Parsed(shift_idx).end) }]
            /\ next_id' = next_id + 1
            /\ added_count' = added_count + 1
       ELSE UNCHANGED <<store, next_id, added_count>>
  /\ shift_idx' = shift_idx + 1
  /\ pc' = "shifts"
  /\ events' = <<>>
  /\ UNCHANGED <<shift_data, configured, current_year, run, service, calendar_id,
                 shift_dates, date_idx, duplicate_ids, remove_idx, skipped_count,
                 result, resolved, ics, ics_result,
                 ics_prev, date_str, time_str, parsed, utc_offset, created_utc>>

\* variant: the pre-clean pass run again after every insert call
InsertEventThenClean(ok) ==
  /\ pc = "insert"
  /\ calls' = Count("insert")
  /\ targets' = targets \cup {calendar_id}
  /\ IF ok
       THEN /\ store' = [store EXCEPT ![calendar_id] =
                           @ \cup { NewEvent(next_id, shift_data[shift_idx],
                                             Parsed(shift_idx).start, Parsed(shift_idx).end) }]
            /\ next_id' = next_id + 1
            /\ added_count' = added_count + 1
       ELSE UNCHANGED <<store, next_id, added_count>>
  /\ shift_idx' = shift_idx + 1
  /\ date_idx' = 1
  /\ pc' = "clean"
  /\ events' = <<>>
  /\ UNCHANGED <<shift_data, configured, current_year, run, service, calendar_id,
                 shift_dates, duplicate_ids, remove_idx, skipped_count,
                 result, resolved, ics, ics_result,
                 ics_prev, date_str, time_str, parsed, utc_offset, created_utc>>

\* events().insert for the shift at shift_idx
InsertEvent(ok) ==
  /\ pc = "insert"
  /\ calls' = Count("insert")
  /\ targets' = targets \cup {calendar_id}
  /\ IF ok
       THEN /\ store' = [store EXCEPT ![calendar_id] =
                           @ \cup { NewEvent(next_id, shift_data[shift_idx],
                                             Parsed(shift_idx).start, Parsed(shift_idx).end) }]
            /\ next_id' = next_id + 1
            /\ added_count' = added_count + 1
       ELSE UNCHANGED <<store, next_id, added_count>>
  /\ shift_idx' = shift_idx + 1
  /\ pc' = "shifts"
  /\ events' = <<>>
  /\ UNCHANGED <<shift_data, configured, current_year, run, service, calendar_id,
                 shift_dates, date_idx, duplicate_ids, remove_idx, skipped_count,
                 result, resolved, ics, ics_result,
                 ics_prev, date_str, time_str, parsed, utc_offset, created_utc>>

\* variant: skipped shifts not counted as success
FinishAddedOnly ==
  /\ pc = "shifts" /\ shift_idx > Len(shift_data)
  /\ result' = (added_count > 0)
  /\ pc' = "done"
  /\ events' = <<>>
  /\ UNCHANGED <<store, shift_data, configured, current_year, run, service, calendar_id,
                 shift_dates, date_idx, duplicate_ids, remove_idx, shift_idx,
                 added_count, skipped_count, next_id, calls, targets, resolved, ics, ics_result,
                 ics_prev, date_str, time_str, parsed, utc_offset, created_utc>>

\* return added_count > 0 or skipped_count > 0
Finish ==
  /\ pc = "shifts" /\ shift_idx > Len(shift_data)
  /\ result' = (added_count > 0 \/ skipped_count > 0)
  /\ pc' = "done"
  /\ events' = <<>>
  /\ UNCHANGED <<store, shift_data, configured, current_year, run, service, calendar_id,
                 shift_dates, date_idx, duplicate_ids, remove_idx, shift_idx,
                 added_count, skipped_count, next_id, calls, targets, resolved, ics, ics_result,
                 ics_prev, date_str, time_str, parsed, utc_offset, created_utc>>

\* the caller runs add_events_to_google_calendar again with the same arguments
NextRun ==
  /\ pc = "done" /\ run < MaxRuns
  /\ run' = run + 1
  /\ pc' = "start"
  /\ service' = "none"
  /\ calendar_id' = configured
  /\ shift_dates' = <<>>
  /\ date_idx' = 1
  /\ events' = <<>>
  /\ duplicate_ids' = <<>>
  /\ remove_idx' = 1
  /\ shift_idx' = 1
  /\ added_count' = 0
  /\ skipped_count' = 0
  /\ result' = FALSE
  /\ calls' = NoCalls
  /\ targets' = {}
  /\ resolved' = "pending"
  /\ UNCHANGED <<store, shift_data, configured, current_year, next_id, ics, ics_result,
                 ics_prev, date_str, time_str, parsed, utc_offset, created_utc>>

Next ==
  \/ \E written \in BOOLEAN, uids \in UidDraws(Len(shift_data)),
        created \in ClockDraws(Len(shift_data), current_year) :
       CreateIcs(written, uids, created)
  \/ \E outcome \in {"ok", "missing", "raised"} : GetService(outcome)
  \/ \E ok \in BOOLEAN : ResolveCalendar(ok)
  \/ \E ok \in BOOLEAN : FindDuplicates(ok)
  \/ \E ok \in BOOLEAN : RemoveDuplicate(ok)
  \/ SkipShift
  \/ \E ok \in BOOLEAN : CheckEventExists(ok)
  \/ \E ok \in BOOLEAN : InsertEvent(ok)
  \/ Finish

Spec == Init /\ [][Next]_vars

\* two runs in succession, every store call succeeding
NextReliable ==
  \/ GetService("ok")
  \/ ResolveCalendar(TRUE)
  \/ FindDuplicates(TRUE)
  \/ RemoveDuplicate(TRUE)
  \/ SkipShift
  \/ CheckEventExists(TRUE)
  \/ InsertEvent(TRUE)
  \/ Finish
  \/ NextRun

SpecTwice == Init /\ [][NextReliable]_vars

(***************************************************************************)
(* A day query over a larger remote state: up to MaxCluster events, three  *)
(* of them with the same start and summary.                                *)
(***************************************************************************)
MaxCluster == 4

ClusterPool(year) ==
  RemotePool(year) \cup
    { Event(0, SummaryAB, FARM_BOY, DateTime(year, 1, 6, 9, 0), DateTime(year, 1, 6, 17, 0), TRUE),
      Event(6, Lunch, FARM_BOY, DateTime(year, 1, 6, 9, 0), DateTime(year, 1, 6, 17, 0), TRUE),
      Event(7, Lunch, FARM_BOY, DateTime(year, 1, 6, 9, 0), DateTime(year, 1, 6, 17, 0), TRUE),
      Event(8, SummaryAB, FARM_BOY,
            DateTime(year, 1, 6, 0, 0), DateTime(year, 1, 7, 0, 0), FALSE) }

InitCluster ==
  /\ current_year \in Years
  /\ date_str = NoDateText /\ time_str = NoTimeText
  /\ shift_data \in SeqsUpTo({ s \in ShiftPool : s.date.day = 6 \/ IsAbsent(s) }, 1)
  /\ configured = ""
  /\ \E S \in { T \in SUBSET ClusterPool(current_year) : Cardinality(T) <= MaxCluster } :
       store = [k \in Calendars |-> S]
  /\ utc_offset = Toronto
  /\ InitRun

SpecCluster == InitCluster /\ [][Next]_vars

(***************************************************************************)
(* Day queries of two dates over events that reach from one date into the  *)
(* next: work events from 23:00 to 01:00 and all-day work events.          *)
(***************************************************************************)
OvernightPool(year) ==
  LET eleven == DateTime(year, 1, 6, 23, 0)
      one == DateTime(year, 1, 7, 1, 0)
  IN { Event(1, SummaryAB, FARM_BOY, eleven, one, TRUE),
       Event(2, SummaryAB, FARM_BOY, eleven, one, TRUE),
       Event(3, SummaryAB, FARM_BOY, eleven, eleven + 30 * OneMinute, TRUE),
       Event(4, SummaryAB, FARM_BOY,
             DateTime(year, 1, 6, 0, 0), DateTime(year, 1, 8, 0, 0), FALSE),
       Event(5, SummaryAB, FARM_BOY,
             DateTime(year, 1, 7, 0, 0), DateTime(year, 1, 8, 0, 0), FALSE) }

InitOvernight ==
  /\ current_year \in Years
  /\ date_str = NoDateText /\ time_str = NoTimeText
  /\ shift_data \in SeqsUpTo({ s \in ShiftPool : s.time = TimeText(9, 0, "AM", 5, 0, "PM") },
                             MaxShifts)
  /\ configured = ""
  /\ \E S \in { T \in SUBSET OvernightPool(current_year) : Cardinality(T) <= MaxRemote } :
       store = [k \in Calendars |-> S]
  /\ utc_offset = Toronto
  /\ InitRun

SpecOvernight == InitOvernight /\ [][Next]_vars

(***************************************************************************)
(* Runs in succession on a calendar that holds no work event at first,     *)
(* every store call succeeding.                                            *)
(***************************************************************************)
InitFresh ==
  /\ current_year \in Years
  /\ date_str = NoDateText /\ time_str = NoTimeText
  /\ shift_data \in SeqsUpTo(ShiftPool, MaxShifts)
  /\ configured \in {"", "work"}
  /\ \E S \in SUBSET { e \in ClusterPool(current_year) : ~IsWorkEvent(e) } :
       store = [k \in Calendars |-> S]
  /\ utc_offset = Toronto
  /\ InitRun

\* the steps of these runs: the cleanup of a day finds no group of two members
\* (C26_NoNearPair), so the deletion loop of lines 304-308 is never entered
NextFresh ==
  \/ GetService("ok")
  \/ ResolveCalendar(TRUE)
  \/ FindDuplicates(TRUE)
  \/ SkipShift
  \/ CheckEventExists(TRUE)
  \/ InsertEvent(TRUE)
  \/ Finish
  \/ NextRun

SpecFresh == InitFresh /\ [][NextFresh]_vars

(***************************************************************************)
(* Both functions on lists that also hold a dictionary without a 'date',   *)
(* every step of the program being taken in the end.                       *)
(***************************************************************************)
NoDate ==
  ShiftRecord(NoDateKey, TimeText(9, 0, "AM", 5, 0, "PM"), Active, <<"A">>, <<"B">>)

OutcomePool ==
  { s \in ShiftPool : s.role = <<"A">> /\ s.status = Active } \cup { NoDate }

InitOutcome ==
  /\ current_year \in Years
  /\ date_str = NoDateText /\ time_str = NoTimeText
  /\ shift_data \in SeqsUpTo(OutcomePool, MaxShifts)
  /\ configured = ""
  /\ \E S \in { T \in SUBSET RemotePool(current_year) : Cardinality(T) <= MaxRemote } :
       store = [k \in Calendars |-> S]
  /\ utc_offset = Toronto
  /\ InitRun

SpecOutcome == InitOutcome /\ [][Next]_vars /\ WF_vars(Next)

(***************************************************************************)
(* create_ics on lists of up to MaxRecords records, called once and, by a  *)
(* second run of the program on the same records, once more.               *)
(***************************************************************************)
MaxRecords == 5

\* a record without the 'role' and the 'department' key
NoRole ==
  ShiftRecord(DateText("Jan", 6), TimeText(9, 15, "AM", 5, 15, "PM"), Active, Missing, Missing)

RecordPool ==
  { s \in ShiftPool : s.role = <<"A">> /\ (IsAbsent(s) \/ s.status = Active) } \cup { NoRole }

InitIcs ==
  /\ current_year \in Years
  /\ date_str = NoDateText /\ time_str = NoTimeText
  /\ shift_data \in SeqsUpTo(RecordPool, MaxRecords)
  /\ configured = ""
  /\ store = [k \in Calendars |-> {}]
  /\ utc_offset = Toronto
  /\ InitRun

\* create_ics called again with the same shift_data
CreateIcsAgain(written, uids, created) ==
  /\ pc = "ics_done"
  /\ ics_prev' = ics
  /\ ics' = IF written /\ ~KeyErrors(shift_data)
              THEN IcsDocument(shift_data, current_year, uids, datetime_now(created))
              ELSE <<>>
  /\ ics_result' = (written /\ ~KeyErrors(shift_data))
  /\ created_utc' = created
  /\ pc' = "ics_again"
  /\ UNCHANGED <<store, shift_data, configured, current_year, run, service, calendar_id,
                 shift_dates, date_idx, events, duplicate_ids, remove_idx, shift_idx,
                 added_count, skipped_count, result, next_id, calls, targets, resolved,
                 date_str, time_str, parsed, utc_offset>>

NextIcs ==
  \/ \E written \in BOOLEAN, uids \in UidDraws(Len(shift_data)),
        created \in ClockDraws(Len(shift_data), current_year) :
       CreateIcs(written, uids, created)
  \/ \E written \in BOOLEAN, uids \in UidDraws(Len(shift_data)),
        created \in ClockDraws(Len(shift_data), current_year) :
       CreateIcsAgain(written, uids, created)

SpecIcs == InitIcs /\ [][NextIcs]_vars

(***************************************************************************)
(* create_ics on machines whose local time is UTC, or behind it by four or *)
(* by five hours.                                                          *)
(***************************************************************************)
UtcOffsets == { 0, 0 - 4 * OneHour, 0 - 5 * OneHour }

InitStamp ==
  /\ current_year \in Years
  /\ date_str = NoDateText /\ time_str = NoTimeText
  /\ shift_data \in SeqsUpTo(RecordPool, MaxShifts)
  /\ configured = ""
  /\ store = [k \in Calendars |-> {}]
  /\ utc_offset \in UtcOffsets
  /\ InitRun

SpecStamp == InitStamp /\ [][NextIcs]_vars

(***************************************************************************)
(* parse_date_time on its own: one call on a date text, a time text and a  *)
(* reference year, and create_ics as its caller, on a list of the record   *)
(* with these texts followed by a well-formed record.                      *)
(***************************************************************************)
ParseYears == {2024, 2025}

\* month tokens the date pattern [A-Za-z]+ captures, days \d+ captures
DateTexts ==
  { NoDateText } \cup
  { DateText(m, d) : m \in {"Jan", "Feb", "Dec", "jan", "January"},
                     d \in {0, 28, 29, 30, 31, 32} }

TimeTexts ==
  { NoTimeText } \cup
  { TimeText(sh, sm, sa, eh, em, ea) :
      sh \in {0, 11, 12, 13, 24}, sm \in {0, 30, 60}, sa \in {"AM", "PM"},
      eh \in {1, 11, 12, 13}, em \in {0, 30}, ea \in {"AM", "PM"} }

WellFormed ==
  ShiftRecord(DateText("Jan", 6), TimeText(9, 0, "AM", 5, 0, "PM"), Active, <<"C">>, <<"B">>)

InitParse ==
  /\ current_year \in ParseYears
  /\ date_str \in DateTexts
  /\ time_str \in TimeTexts
  /\ shift_data = << ShiftRecord(date_str, time_str, Active, <<"A">>, <<"B">>), WellFormed >>
  /\ configured = ""
  /\ store = [k \in Calendars |-> {}]
  /\ utc_offset = Toronto
  /\ InitRun

\* start_dt, end_dt = parse_date_time(date_str, time_str, current_year)
Parse ==
  /\ parsed = <<>>
  /\ parsed' = << parse_date_time(date_str, time_str, current_year) >>
  /\ UNCHANGED <<store, shift_data, configured, current_year, run, pc, service, calendar_id,
                 shift_dates, date_idx, events, duplicate_ids, remove_idx, shift_idx,
                 added_count, skipped_count, result, next_id, calls, targets, resolved,
                 ics, ics_result, ics_prev, date_str, time_str, utc_offset, created_utc>>

NextParse ==
  \/ Parse
  \/ \E written \in BOOLEAN, uids \in UidDraws(Len(shift_data)),
        created \in ClockDraws(Len(shift_data), current_year) :
       CreateIcs(written, uids, created)

SpecParse == InitParse /\ [][NextParse]_vars

(***************************************************************************)
(* Properties                                                              *)
(***************************************************************************)
Stored == UNION { store[c] : c \in Calendars }

\* C1: the second of two runs in succession, with the same shift list and every
\* store call succeeding, inserts nothing and finds no duplicate to delete, so it
\* leaves the store unchanged.
C1_SecondRunIdle ==
  run = 2 => calls.insert = 0 /\ calls.flagged = 0 /\ calls.delete = 0

\* "differ by strictly less than 30 minutes"
Near(a, b) == a - b < 30 * 60 /\ b - a < 30 * 60

\* a returned event that makes the shift [s, e] an existing one
C2_Match(evs, s, e) ==
  \E i \in 1..Len(evs) :
    /\ Contains(evs[i].summary, WORK)
    /\ evs[i].location = FARM_BOY
    /\ evs[i].timed
    /\ Near(evs[i].start, s) /\ Near(evs[i].end, e)

\* the per-shift loop is at a shift that is neither absent nor unparseable
AtCandidate ==
  /\ pc = "shifts" /\ shift_idx <= Len(shift_data)
  /\ Lower(shift_data[shift_idx].status) # ABSENT
  /\ Parsed(shift_idx).ok

\* C2: a non-absent parsed shift is skipped (counted, no insert call) exactly when
\* the window query returned a "Work:" / "Farm Boy" event with start and end each
\* strictly less than 30 minutes away; otherwise exactly one insert is attempted.
C2_SkipExactlyOnMatch ==
  /\ [][AtCandidate =>
          IF C2_Match(events', Parsed(shift_idx).start, Parsed(shift_idx).end)
            THEN /\ skipped_count' = skipped_count + 1
                 /\ shift_idx' = shift_idx + 1
                 /\ pc' = "shifts"
                 /\ calls'.insert = calls.insert
            ELSE /\ skipped_count' = skipped_count
                 /\ shift_idx' = shift_idx
                 /\ pc' = "insert"]_vars
  /\ [][pc = "insert" =>
          /\ calls'.insert = calls.insert + 1
          /\ shift_idx' = shift_idx + 1
          /\ pc' = "shifts"]_vars

\* the shift 09:00-17:00 is about to be inserted although a work event starting
\* exactly 30 minutes later (and ending with it) was returned
C2_Witness ==
  /\ pc = "insert"
  /\ Parsed(shift_idx).start = DateTime(current_year, 1, 6, 9, 0)
  /\ \E i \in 1..Len(events) :
       /\ IsWorkEvent(events[i])
       /\ events[i].start = Parsed(shift_idx).start + 30 * 60
       /\ events[i].end = Parsed(shift_idx).end

\* C3: a shift is skipped only if a returned event has exactly the shift's summary
\* (with the location tag and a start within the tolerance).
C3_SkipNeedsEqualSummary ==
  [][AtCandidate /\ skipped_count' = skipped_count + 1 =>
       \E i \in 1..Len(events') :
         /\ events'[i].summary = Summary(shift_data[shift_idx])
         /\ events'[i].location = FARM_BOY
         /\ events'[i].timed
         /\ Near(events'[i].start, Parsed(shift_idx).start)]_vars

\* the ids a list flags, as a set
IdSet(ids) == { ids[i] : i \in 1..Len(ids) }

\* members of evs, other than the first, of the (start, summary) groups of the
\* events that satisfy keep
LaterMembers(evs, keep(_)) ==
  { evs[i].id : i \in { k \in 1..Len(evs) :
       /\ keep(evs[k])
       /\ \E j \in 1..(k - 1) :
            /\ keep(evs[j])
            /\ StartDateTime(evs[j]) = StartDateTime(evs[k])
            /\ evs[j].summary = evs[k].summary } }

AnyEvent(e) == TRUE
FarmBoyWork(e) == Contains(e.summary, WORK) /\ e.location = FARM_BOY

\* C4 as stated: of all the events a day query returned, grouped by (start,
\* summary), exactly the members after the first of each group are flagged.
C4_AllGroupsFlagged ==
  [][pc = "clean" => IdSet(duplicate_ids') = LaterMembers(events', AnyEvent)]_vars

\* C4 amended: of the "Work:" / "Farm Boy" events a day query returned, grouped by
\* (start, summary), exactly the members after the first of each group with more
\* than one member are flagged, each once.
C4_WorkGroupsFlagged ==
  [][pc = "clean" =>
       /\ IdSet(duplicate_ids') = LaterMembers(events', FarmBoyWork)
       /\ Cardinality(IdSet(duplicate_ids')) = Len(duplicate_ids')]_vars

\* three work events with the same start and summary and one work event with
\* another summary were returned, and exactly two ids are flagged
C4_Witness ==
  /\ pc = "remove" /\ Len(events) = 4 /\ Len(duplicate_ids) = 2
  /\ \E other \in 1..4 :
       /\ FarmBoyWork(events[other])
       /\ \A i, j \in (1..4) \ {other} :
            /\ FarmBoyWork(events[i])
            /\ events[i].start = events[j].start
            /\ events[i].summary = events[j].summary
            /\ events[i].summary # events[other].summary

ABSENT_UPPER == <<"A","B","S","E","N","T">>

\* the text is "absent" in some letter case
AbsentAnyCase(status) ==
  /\ Len(status) = 6
  /\ \A i \in 1..6 : status[i] = ABSENT[i] \/ status[i] = ABSENT_UPPER[i]

\* the text holds "absent", in some letter case, somewhere
AbsentSubstring(status) ==
  \E k \in 0..(Len(status) - 6) : AbsentAnyCase(SubSeq(status, k + 1, k + 6))

EventBlocks(doc) == Cardinality({ i \in 1..Len(doc) : doc[i] = <<"BEGIN", "VEVENT">> })

\* the document holds one event block per parsed record that absent(status) does
\* not exclude
DocumentOmits(absent(_)) ==
  pc = "ics_done" /\ ics_result =>
    EventBlocks(ics) =
      Cardinality({ i \in 1..Len(shift_data) :
                      ~absent(shift_data[i].status) /\ Parsed(i).ok })

\* the per-shift loop passes over a record absent(status) excludes without a
\* store call
PassesOver(absent(_)) ==
  pc = "shifts" /\ shift_idx <= Len(shift_data) /\ absent(shift_data[shift_idx].status) =>
    /\ calls' = calls /\ store' = store
    /\ added_count' = added_count /\ skipped_count' = skipped_count
    /\ shift_idx' = shift_idx + 1 /\ pc' = "shifts"

\* C5: a record whose status is "absent" in any letter case gives no event block
\* in the document of create_ics and gets no existence check and no insert call.
C5_AbsentExcluded ==
  /\ [](DocumentOmits(AbsentAnyCase))
  /\ [][PassesOver(AbsentAnyCase)]_vars

\* a run is over in which a record with a mixed-case "absent" status was passed
\* over and the record after it was checked and inserted
C5_Witness ==
  /\ pc = "done" /\ Len(shift_data) = 2
  /\ AbsentAnyCase(shift_data[1].status) /\ shift_data[1].status # ABSENT
  /\ Parsed(1).ok
  /\ calls.window_list = 1 /\ added_count = 1

\* C6: a record whose status contains "absent" (any letter case) as a substring
\* is excluded from the document and from the insert candidates.
C6_SubstringExcluded ==
  /\ [](DocumentOmits(AbsentSubstring))
  /\ [][PassesOver(AbsentSubstring)]_vars

\* C7: the run returns True exactly when an insert succeeded or a shift was
\* skipped as existing (an existence check that led to no insert call).
C7_ResultIffProgress ==
  pc = "done" =>
    (result <=> \/ \E e \in Stored : e.id >= FirstNewId
                \/ calls.window_list > calls.insert)

\* the run returned False after insert calls, all of which failed
C7_Witness == pc = "done" /\ ~result /\ calls.insert > 0 /\ service = "ok"

\* C8: whatever store calls fail, a finished run has queried every distinct date
\* of the parsed shifts, attempted the delete of every flagged id, checked every
\* non-absent parsed shift and attempted the insert of every unmatched one.
C8_RunCompletes ==
  pc = "done" /\ service = "ok" =>
    /\ calls.day_list =
         Cardinality({ DateOf(Parsed(i).start) : i \in { k \in 1..Len(shift_data) : Parsed(k).ok } })
    /\ calls.delete = calls.flagged
    /\ calls.window_list =
         Cardinality({ i \in 1..Len(shift_data) :
                         Lower(shift_data[i].status) # ABSENT /\ Parsed(i).ok })
    /\ calls.insert = calls.window_list - skipped_count

\* a finished run whose delete failed (both members of the cluster are still
\* stored) and whose first insert failed, with a second insert attempted after it
C8_Witness ==
  /\ pc = "done" /\ calls.flagged = 1 /\ calls.delete = 1
  /\ Cardinality(store[calendar_id]) = 2
  /\ calls.insert = 2 /\ added_count = 0

\* C9: when the calendar client cannot be acquired the run returns False and has
\* made no list, insert, delete or resolve call.
C9_NoServiceNoCalls ==
  service \in {"missing", "raised"} =>
    pc = "done" /\ ~result /\ calls = NoCalls /\ targets = {}

\* no client was acquired although there was a shift to insert
C9_Witness ==
  /\ service = "missing" /\ pc = "done"
  /\ \E i \in 1..Len(shift_data) : Eligible(i)

\* C10: after a failed resolution the run goes on and its list, delete and insert
\* calls name "primary"; after a successful one they name the configured id, or
\* "primary" when none is configured.
C10_TargetAfterResolution ==
  /\ []( /\ resolved = "pending" => targets = {}
         /\ resolved = "failed" => targets \subseteq {"primary"}
         /\ resolved = "ok" =>
              targets \subseteq {IF configured = "" THEN "primary" ELSE configured} )
  /\ [][pc = "resolve" => pc' \in {"clean", "shifts"}]_vars

\* the resolution of the configured "work" calendar failed and the run went on to
\* insert into "primary"
C10_Witness ==
  /\ pc = "done" /\ resolved = "failed" /\ configured = "work"
  /\ targets = {"primary"} /\ added_count >= 1

(***************************************************************************)
(* The temporal parser                                                     *)
(***************************************************************************)
\* the call has returned a start and an end
ParsedOk == parsed # <<>> /\ parsed[1].ok

\* C11: every successful result of parse_date_time has its end after its start.
C11_EndAfterStart == ParsedOk => parsed[1].end > parsed[1].start

\* a successful result whose end time of day is not later than the start's
C11_Witness ==
  /\ ParsedOk
  /\ To24(time_str.end_hour, time_str.end_ampm) * 60 + time_str.end_min
       < To24(time_str.start_hour, time_str.start_ampm) * 60 + time_str.start_min

\* time of day of an instant, in seconds after midnight
TimeOfDay(t) == t % OneDay

\* "11:00 PM to 1:00 AM"
ElevenToOne == TimeText(11, 0, "PM", 1, 0, "AM")

\* C12: the end lies on the start's date when its time of day is later than the
\* start's and on the next date otherwise, so that an end time equal to the start
\* time gives 24 hours, every interval is longer than 0 and at most 24 hours, and
\* "11:00 PM to 1:00 AM" ends two hours after the start, one day later.
C12_Rollover ==
  ParsedOk =>
    LET start == parsed[1].start
        end == parsed[1].end
    IN /\ IF TimeOfDay(end) > TimeOfDay(start)
            THEN DateOf(end) = DateOf(start)
            ELSE DateOf(end) = DateOf(start) + 1
       /\ TimeOfDay(end) = TimeOfDay(start) => end - start = 24 * 60 * 60
       /\ 0 < end - start /\ end - start <= 24 * 60 * 60
       /\ time_str = ElevenToOne =>
            end = start + 2 * 60 * 60 /\ DateOf(end) = DateOf(start) + 1

\* "11:00 PM to 1:00 AM" on 31 December was parsed
C12_Witness ==
  /\ ParsedOk /\ time_str = ElevenToOne
  /\ date_str.month_str = "Dec" /\ date_str.day = 31

\* the conversion table of the 12-hour clock
Hour24(h, ampm) ==
  CASE h = 12 /\ ampm = "AM" -> 0
    [] h < 12 /\ ampm = "PM" -> h + 12
    [] h = 12 /\ ampm = "PM" -> 12
    [] h < 12 /\ ampm = "AM" -> h

HourOf(t) == TimeOfDay(t) \div (60 * 60)
MinuteOf(t) == (TimeOfDay(t) % (60 * 60)) \div 60

\* C13: an hour h in 1..12 with its AM/PM marker becomes the hour of the table,
\* for the start and for the end, and the minute is the minute of the text.
C13_TwelveHourClock ==
  ParsedOk =>
    /\ time_str.start_hour \in 1..12 =>
         /\ HourOf(parsed[1].start) = Hour24(time_str.start_hour, time_str.start_ampm)
         /\ MinuteOf(parsed[1].start) = time_str.start_min
    /\ time_str.end_hour \in 1..12 =>
         /\ HourOf(parsed[1].end) = Hour24(time_str.end_hour, time_str.end_ampm)
         /\ MinuteOf(parsed[1].end) = time_str.end_min

\* "12:30 AM to 11:00 PM" was parsed
C13_Witness ==
  /\ ParsedOk
  /\ time_str = TimeText(12, 30, "AM", 11, 0, "PM")

\* the texts the parser has to reject: no match, a month token outside the table
\* of the twelve abbreviations, a day the month of that year does not have, a
\* minute above 59, an hour that is no hour of the day
TwelveMonths ==
  {"Jan", "Feb", "Mar", "Apr", "May", "Jun", "Jul", "Aug", "Sep", "Oct", "Nov", "Dec"}

LastDay(y, m) ==
  IF m = "Feb" THEN (IF y = 2024 THEN 29 ELSE 28)
  ELSE IF m \in {"Apr", "Jun", "Sep", "Nov"} THEN 30 ELSE 31

Rejected ==
  \/ ~date_str.match
  \/ ~time_str.match
  \/ date_str.month_str \notin TwelveMonths
  \/ date_str.day < 1
  \/ date_str.day > LastDay(current_year, date_str.month_str)
  \/ time_str.start_min > 59 \/ time_str.end_min > 59
  \/ time_str.start_hour > 23 \/ time_str.end_hour > 23

\* the lines of the event block create_ics writes for the well-formed record,
\* without its UID and DTSTAMP lines
OnlyWellFormed(doc) ==
  /\ Len(doc) = Len(IcsHeader) + 14 + 1
  /\ doc[Len(IcsHeader) + 6] = <<"SUMMARY", Summary(WellFormed)>>

\* C14: for a text the parser has to reject, parse_date_time returns the failure
\* value, and its caller leaves that record out and goes on with the next one.
C14_RejectedIsSkipped ==
  Rejected =>
    /\ parsed # <<>> => parsed[1] = ParseFailure
    /\ pc = "ics_done" /\ ics_result => OnlyWellFormed(ics)

\* 30 February was handed to the parser and to create_ics
C14_Witness ==
  /\ date_str.match /\ date_str.month_str = "Feb" /\ date_str.day = 30
  /\ time_str.match /\ time_str.start_hour = 11 /\ time_str.start_min = 30
  /\ time_str.end_hour = 1 /\ time_str.end_min = 0
  /\ parsed # <<>> /\ ~parsed[1].ok
  /\ pc = "ics_done" /\ ics_result /\ EventBlocks(ics) = 1

(***************************************************************************)
(* The file emitter                                                        *)
(***************************************************************************)
\* a run of create_ics has returned True and ics is the document it wrote
Written == pc \in {"ics_done", "ics_again"} /\ ics_result

\* the positions of the BEGIN:VEVENT lines, in document order
BlockStarts(doc) ==
  SelectSeq([i \in 1..Len(doc) |-> i], LAMBDA i : doc[i] = <<"BEGIN", "VEVENT">>)

\* the positions of the records that are not absent and parse, in input order
Kept ==
  SelectSeq([i \in 1..Len(shift_data) |-> i],
            LAMBDA i : ~AbsentAnyCase(shift_data[i].status) /\ Parsed(i).ok)

\* C15: the event blocks of the written document are, in input order, the blocks
\* of the records that are not absent and parse; the other records give none.
C15_BlocksFollowInput ==
  Written =>
    /\ Len(BlockStarts(ics)) = Len(Kept)
    /\ \A k \in 1..Len(Kept) :
         LET b == BlockStarts(ics)[k]
             i == Kept[k]
         IN /\ ics[b + 3] = <<"DTSTART", Stamp(current_year, Parsed(i).start, "")>>
            /\ ics[b + 4] = <<"DTEND", Stamp(current_year, Parsed(i).end, "")>>
            /\ ics[b + 5] = <<"SUMMARY", Summary(shift_data[i])>>

\* five records, none absent, one of them with a time that does not parse, and a
\* written document of four events
C15_Witness ==
  /\ Written /\ Len(shift_data) = 5 /\ Len(Kept) = 4
  /\ \A i \in 1..5 : ~AbsentAnyCase(shift_data[i].status)
  /\ ~Parsed(2).ok
  /\ EventBlocks(ics) = 4

\* the block structure of doc[i..], read line by line: inside is the innermost
\* open block and alarms the number of alarms closed in the open event
RECURSIVE Nested(_, _, _, _)
Nested(doc, i, inside, alarms) ==
  IF i > Len(doc) THEN inside = "closed"
  ELSE
    CASE doc[i] = <<"BEGIN", "VCALENDAR">> ->
           inside = "none" /\ Nested(doc, i + 1, "calendar", 0)
      [] doc[i] = <<"BEGIN", "VEVENT">> ->
           inside = "calendar" /\ Nested(doc, i + 1, "event", 0)
      [] doc[i] = <<"BEGIN", "VALARM">> ->
           inside = "event" /\ alarms = 0 /\ Nested(doc, i + 1, "alarm", 0)
      [] doc[i] = <<"END", "VALARM">> ->
           inside = "alarm" /\ Nested(doc, i + 1, "event", 1)
      [] doc[i] = <<"END", "VEVENT">> ->
           inside = "event" /\ alarms = 1 /\ Nested(doc, i + 1, "calendar", 0)
      [] doc[i] = <<"END", "VCALENDAR">> ->
           inside = "calendar" /\ Nested(doc, i + 1, "closed", 0)
      [] OTHER ->
           inside \in {"calendar", "event", "alarm"} /\ Nested(doc, i + 1, inside, alarms)

\* the positions of the lines with the given name
LinesNamed(doc, name) == { i \in 1..Len(doc) : doc[i][1] = name }

\* C16: the written document opens and closes the calendar once, as its first
\* and last line, closes every event it opens, holds one alarm inside each
\* event, and has the VERSION and PRODID lines once each, before any event.
C16_Balanced ==
  Written =>
    /\ Nested(ics, 1, "none", 0)
    /\ \A name \in {"VERSION", "PRODID"} :
         /\ Cardinality(LinesNamed(ics, name)) = 1
         /\ \A i \in LinesNamed(ics, name), b \in 1..Len(ics) :
              ics[b] = <<"BEGIN", "VEVENT">> => i < b

\* the document written for the empty list
C16_Witness ==
  /\ Written /\ shift_data = <<>>
  /\ ics = IcsHeader \o << <<"END", "VCALENDAR">> >>

\* both runs of create_ics have written their document
WrittenTwice == pc = "ics_again" /\ ics_result /\ ics_prev # <<>>

\* C17: the documents of two runs on the same records differ in nothing but the
\* values of their UID and DTSTAMP lines.
C17_SameButUidAndStamp ==
  WrittenTwice =>
    /\ Len(ics) = Len(ics_prev)
    /\ \A i \in 1..Len(ics) :
         \/ ics[i] = ics_prev[i]
         \/ /\ ics[i][1] = ics_prev[i][1]
            /\ ics[i][1] \in {"UID", "DTSTAMP"}

\* two documents of two events each, with other identifiers and another stamp
C17_Witness ==
  /\ WrittenTwice /\ EventBlocks(ics) = 2
  /\ \A k \in 1..2 :
       LET b == BlockStarts(ics)[k]
       IN /\ ics[b + 1] # ics_prev[b + 1]
          /\ ics[b + 2] # ics_prev[b + 2]

(***************************************************************************)
(* The pre-clean pass                                                      *)
(***************************************************************************)
\* the start dates of the shifts that are not absent and parse
WorkedDates ==
  { DateOf(Parsed(i).start) :
      i \in { k \in 1..Len(shift_data) :
                ~AbsentAnyCase(shift_data[k].status) /\ Parsed(k).ok } }

\* C18: every day query of the pre-clean pass is for the start date of a shift
\* that is not absent and parses, so that a date found only on absent or
\* unparseable shifts is not queried.
C18_QueriesWorkedDatesOnly ==
  [][calls'.day_list > calls.day_list => shift_dates[date_idx] \in WorkedDates]_vars

(***************************************************************************)
(* Default role and department                                             *)
(***************************************************************************)
EMPLOYEE == <<"E","m","p","l","o","y","e","e">>
UNKNOWN == <<"U","n","k","n","o","w","n">>

\* C20: the block written for a record without role and department has the
\* summary and the description of the role "Employee" and the department
\* "Unknown".
C20_DefaultsEmployeeUnknown ==
  Written =>
    \A k \in 1..Len(Kept) :
      LET b == BlockStarts(ics)[k]
          shift == shift_data[Kept[k]]
      IN shift.role = Missing /\ shift.department = Missing =>
           /\ ics[b + 5] = <<"SUMMARY", WORK \o <<" ">> \o EMPLOYEE \o <<" ", "(">>
                                          \o UNKNOWN \o <<")">> >>
           /\ ics[b + 6] = <<"DESCRIPTION",
                             <<"Role: ">> \o EMPLOYEE \o <<"\\n", "Department: ">>
                                \o UNKNOWN \o <<"\\n", "Duration: ">> \o shift.duration>>

(***************************************************************************)
(* Outcomes                                                                *)
(***************************************************************************)
\* C19: whatever the records and whichever store calls fail, the function at
\* work comes to its end, and it ends with a boolean as its returned value.
C19_ReturnsBoolean ==
  /\ <>(pc \in {"done", "ics_done"})
  /\ [](pc = "done" => result \in BOOLEAN)
  /\ [](pc = "ics_done" => ics_result \in BOOLEAN)

\* a run that resolved its calendar, met the dictionary without a 'date' while
\* collecting the dates and returned False without a day query
C19_Witness ==
  /\ pc = "done" /\ ~result
  /\ KeyErrors(shift_data) /\ calls.resolve = 1 /\ calls.day_list = 0

(***************************************************************************)
(* The phases of a run                                                     *)
(***************************************************************************)
\* the step makes a store call of the given kind
Calls(kind) == calls'[kind] = calls[kind] + 1

\* C21: the calendar is resolved before any list, delete or insert call, and a
\* delete call is made only while no existence check and no insert of the run
\* has been made.
C21_PhasesInOrder ==
  [][/\ Calls("day_list") \/ Calls("delete") \/ Calls("window_list") \/ Calls("insert")
         => resolved # "pending" /\ calls.resolve = 1
     /\ Calls("delete") => calls.window_list = 0 /\ calls.insert = 0]_vars

\* a run that deleted a duplicate and later inserted an event
C21_Witness ==
  pc = "done" /\ calls.delete >= 1 /\ calls.window_list >= 1 /\ calls.insert >= 1

(***************************************************************************)
(* The per-shift pass                                                      *)
(***************************************************************************)
\* a stored work event that starts within the tolerance of the shift [s, e] and
\* ends 30 minutes or more away from its end
StartOnlyNear(ev, s, e) ==
  /\ Contains(ev.summary, WORK) /\ ev.location = FARM_BOY /\ ev.timed
  /\ Near(ev.start, s) /\ ~Near(ev.end, e)

\* a stored work event within the tolerance of the shift [s, e] on both ends
BothNear(ev, s, e) ==
  /\ Contains(ev.summary, WORK) /\ ev.location = FARM_BOY /\ ev.timed
  /\ Near(ev.start, s) /\ Near(ev.end, e)

\* C22: a step of the per-shift pass removes and changes no stored event; a
\* shift for which the calendar holds a work event near its start only, and none
\* near both ends, goes to the insert call, and a successful insert adds one
\* event with the shift's start and end to the events that were there.
C22_InsertOrSkipOnly ==
  /\ [][(pc = "shifts" \/ pc = "insert") =>
          (\A c \in Calendars : store[c] \subseteq store'[c])]_vars
  /\ [][/\ AtCandidate
        /\ (\E ev \in store[calendar_id] :
              StartOnlyNear(ev, Parsed(shift_idx).start, Parsed(shift_idx).end))
        /\ ~(\E ev \in store[calendar_id] :
               BothNear(ev, Parsed(shift_idx).start, Parsed(shift_idx).end))
        => pc' = "insert" /\ skipped_count' = skipped_count /\ store' = store]_vars
  /\ [][pc = "insert" /\ store' # store =>
          (\E new \in store'[calendar_id] \ store[calendar_id] :
             /\ store'[calendar_id] = store[calendar_id] \cup {new}
             /\ new.start = Parsed(shift_idx).start /\ new.end = Parsed(shift_idx).end
             /\ \A ev \in store[calendar_id] : ev.id # new.id)]_vars

\* the shift 09:15-17:15 was inserted next to the stored work event 09:00-16:30,
\* whose end is 45 minutes away, and that event is still there
C22_Witness ==
  /\ pc = "done" /\ calls.delete = 0 /\ calendar_id \in Calendars
  /\ \E old, new \in store[calendar_id] :
       /\ old.id < FirstNewId /\ new.id >= FirstNewId
       /\ old.start = DateTime(current_year, 1, 6, 9, 0)
       /\ old.end = DateTime(current_year, 1, 6, 16, 30)
       /\ new.start = DateTime(current_year, 1, 6, 9, 15)
       /\ new.end = DateTime(current_year, 1, 6, 17, 15)

\* C23: when the window query of the existence check gives no items, as it does
\* when it fails, the shift is not counted as skipped, and the insert call for
\* that shift is the next step of the run.
C23_FailedCheckInserts ==
  /\ [][AtCandidate /\ Calls("window_list") /\ events' = <<>> =>
          /\ pc' = "insert"
          /\ shift_idx' = shift_idx
          /\ skipped_count' = skipped_count]_vars
  /\ [][pc = "insert" => Calls("insert") /\ skipped_count' = skipped_count]_vars

\* the insert call is next for a shift although the calendar holds a work event
\* within the tolerance on both ends: the window query has failed
C23_Witness ==
  /\ pc = "insert" /\ events = <<>>
  /\ \E ev \in store[calendar_id] :
       BothNear(ev, Parsed(shift_idx).start, Parsed(shift_idx).end)

(***************************************************************************)
(* What the pre-clean pass deletes                                         *)
(***************************************************************************)
\* C24: every id a day query flags, and every event a step removes from the
\* store, is an event of that query whose summary contains "Work:" and whose
\* location is "Farm Boy"; other events stay, also when they share start and
\* summary.
C24_DeletesWorkEventsOnly ==
  /\ [][pc = "clean" =>
          (\A id \in IdSet(duplicate_ids') :
             \E i \in 1..Len(events') : events'[i].id = id /\ FarmBoyWork(events'[i]))]_vars
  /\ [][pc = "remove" =>
          (\A c \in Calendars : \A e \in store[c] \ store'[c] :
             /\ FarmBoyWork(e)
             /\ e.id = duplicate_ids[remove_idx]
             /\ \E i \in 1..Len(events) : events[i] = e)]_vars
  /\ [][pc # "remove" => (\A c \in Calendars : store[c] \subseteq store'[c])]_vars

\* a duplicate work event was deleted from a calendar that holds two "Lunch"
\* events with the same start, and these two are still there
C24_Witness ==
  /\ pc = "done" /\ calendar_id \in Calendars
  /\ \E c \in Calendars : store[c] \ store[calendar_id] # {}
  /\ \E a, b \in store[calendar_id] :
       a.summary = Lunch /\ b.summary = Lunch /\ a.id # b.id /\ a.start = b.start

\* what the pre-clean pass groups a work event by: its start dateTime, which an
\* all-day event does not have, and its summary
ClusterOf(e) == <<e.timed, IF e.timed THEN e.start ELSE 0, e.summary>>

\* evs[i] is the first work event of its group in evs
FirstOfGroup(evs, i) ==
  /\ FarmBoyWork(evs[i])
  /\ \A j \in 1..(i - 1) : FarmBoyWork(evs[j]) => ClusterOf(evs[j]) # ClusterOf(evs[i])

ShiftsMatch(i, j) ==
  /\ Near(Parsed(i).start, Parsed(j).start)
  /\ Near(Parsed(i).end, Parsed(j).end)

\* C26: no two work events of a calendar are within the tolerance of each other
\* on both ends, so the cleanup flags nothing, and of two shifts that match each
\* other the first is inserted and the second counted as skipped.
C26_NoNearPair ==
  /\ duplicate_ids = <<>>
  /\ \A c \in Calendars : \A a, b \in store[c] :
       a # b /\ FarmBoyWork(a) /\ FarmBoyWork(b) =>
         ~(Near(a.start, b.start) /\ Near(a.end, b.end))
  /\ pc = "done" /\ run = 1 /\ Len(shift_data) = 2
       /\ (\A i \in 1..2 : ~AbsentAnyCase(shift_data[i].status) /\ Parsed(i).ok)
       /\ ShiftsMatch(1, 2)
       => added_count = 1 /\ skipped_count = 1

\* the shifts 09:00-17:00 of role A and 09:15-17:15 of role C: the first run is
\* over with one event inserted and one shift skipped
C26_Witness ==
  /\ pc = "done" /\ run = 1 /\ Len(shift_data) = 2
  /\ shift_data[1].role = <<"A">> /\ shift_data[2].role = <<"C">>
  /\ Parsed(1).ok /\ Parsed(2).ok /\ ShiftsMatch(1, 2)
  /\ added_count = 1 /\ skipped_count = 1
  /\ Cardinality({ e \in store[calendar_id] : FarmBoyWork(e) }) = 1

(***************************************************************************)
(* The stamps of an event block                                            *)
(***************************************************************************)
\* C27: in a written document the DTSTAMP of every block is the UTC instant of
\* its creation followed by "Z", and DTSTART and DTEND are the parsed local
\* start and end without a suffix.
C27_StampIsUtc ==
  Written =>
    \A k \in 1..Len(Kept) :
      LET b == BlockStarts(ics)[k]
          i == Kept[k]
      IN /\ ics[b + 2] = <<"DTSTAMP", Stamp(current_year, created_utc[i], "Z")>>
         /\ ics[b + 3] = <<"DTSTART", Stamp(current_year, Parsed(i).start, "")>>
         /\ ics[b + 4] = <<"DTEND", Stamp(current_year, Parsed(i).end, "")>>

====
